---- MODULE Spec2Model ----
(***************************************************************************)
(* Model of task-9_3-parsing-1.py: a retrying HTTP fetcher                 *)
(* (fetch_with_retries), a page extractor (parse_books_from_catalog_page), *)
(* the pagination driver (scrape_all_books) and the cleaning stage         *)
(* (clean_and_validate) that main() runs on the crawl's result.            *)
(*                                                                         *)
(* Strings are sequences of one-character strings.  A URL is a sequence of *)
(* path segments whose first segment is the origin when it is absolute.    *)
(* An HTML document is a record of its item cards and its "next" anchor.   *)
(***************************************************************************)
EXTENDS Integers, Sequences, FiniteSets, TLC

\* ---------------------------------------------------------------- bounds
MaxRetries == 3   \* largest max_retries a run is configured with
MaxPages   == 3   \* largest number of catalogue pages the site serves
MaxVisits  == 4   \* largest page counter a run is followed to
MaxRows    == 3   \* longest frame the cleaning stage is given on its own
MaxRetriesTwo == 2   \* largest max_retries of two concurrent runs
MaxPagesTwo   == 2   \* largest site two concurrent runs crawl
MaxRetriesLive == 1  \* largest max_retries of the runs checked for termination
MaxPagesLive   == 2  \* largest site of the runs checked for termination

\* ------------------------------------------------------------- sequences
Front(s) == SubSeq(s, 1, Len(s) - 1)

Last(s) == s[Len(s)]

RECURSIVE Flatten(_)
Flatten(ss) == IF ss = <<>> THEN <<>> ELSE Head(ss) \o Flatten(Tail(ss))

\* ---------------------------------------------------------------- strings
Whitespace == {" ", "\n"}

RECURSIVE LStrip(_)
LStrip(s) ==
  IF s # <<>> /\ Head(s) \in Whitespace THEN LStrip(Tail(s)) ELSE s

RECURSIVE RStrip(_)
RStrip(s) ==
  IF s # <<>> /\ Last(s) \in Whitespace THEN RStrip(Front(s)) ELSE s

\* str.strip()
Strip(s) == RStrip(LStrip(s))

\* Tag.get_text(separator, strip=True): every text node stripped, the empty
\* ones dropped, the rest joined by the separator.
RECURSIVE JoinStripped(_, _)
JoinStripped(pieces, sep) ==
  IF pieces = <<>> THEN <<>>
  ELSE LET p    == Strip(Head(pieces))
           rest == JoinStripped(Tail(pieces), sep)
       IN  IF p = <<>> THEN rest
           ELSE IF rest = <<>> THEN p
           ELSE p \o sep \o rest

get_text(pieces, sep) == JoinStripped(pieces, sep)

\* ------------------------------------------------------------------- URLs
Origin == "https://books.toscrape.com"

\* ParserConfig.base_url of DEFAULT_CONFIG: the origin and an empty last
\* segment (the URL ends in "/").
base_url == <<Origin, "">>

IsAbsoluteUrl(u) == u # <<>> /\ u[1] = Origin

\* Dot segments of a merged path are removed as urljoin does.
RECURSIVE RemoveDots(_, _)
RemoveDots(done, todo) ==
  IF todo = <<>> THEN done
  ELSE IF Head(todo) = "." THEN RemoveDots(done, Tail(todo))
  ELSE IF Head(todo) = ".."
       THEN RemoveDots(IF Len(done) > 1 THEN Front(done) ELSE done, Tail(todo))
  ELSE RemoveDots(Append(done, Head(todo)), Tail(todo))

\* urllib.parse.urljoin(base, url)
urljoin(base, url) ==
  IF url = <<>> THEN base
  ELSE IF base = <<>> \/ IsAbsoluteUrl(url) THEN url
  ELSE RemoveDots(<<Head(base)>>, Tail(Front(base)) \o url)

\* The "no URL" value of current_url / next_url (None; falsy like "").
None == <<>>

\* ------------------------------------------------------------------- HTML
\* An item card (article.product_pod).  h3a: the card has an <h3> with an
\* <a> in it; title/href: that link's attributes ("" when absent);
\* price, avail: the text nodes of p.price_color and p.instock.availability
\* (has* tells whether the element exists); classes: the class list of the
\* p.star-rating element.
Card(h3a, title, href, hasPrice, price, hasAvail, avail, hasRating, classes) ==
  [h3a |-> h3a, title |-> title, href |-> href,
   hasPrice |-> hasPrice, price |-> price,
   hasAvail |-> hasAvail, avail |-> avail,
   hasRating |-> hasRating, classes |-> classes]

Pound == "£"

InStockText == <<"I", "n", " ", "s", "t", "o", "c", "k">>

CardA ==
  Card(TRUE, <<" ", "A">>, <<"a_1", "index.html">>,
       TRUE, <<<<Pound, "1", "0", ".", "0", "0">>>>,
       TRUE, <<<<"\n">>, <<"\n", " ">> \o InStockText \o <<"\n">>>>,
       TRUE, <<"star-rating", "Three">>)

\* out of stock: no p.instock.availability element
CardB ==
  Card(TRUE, <<"B">>, <<"b_2", "index.html">>,
       TRUE, <<<<Pound, "3", "5", ".", "0", "0">>>>,
       FALSE, <<>>,
       TRUE, <<"Five", "star-rating">>)

\* no star-rating marker
CardC ==
  Card(TRUE, <<"C", " ">>, <<"..", "catalogue", "c_3", "index.html">>,
       TRUE, <<<<" ", Pound, "5", ".", "0", "0">>>>,
       TRUE, <<InStockText>>,
       FALSE, <<>>)

\* a card without its heading link, and without a price
CardNoHeading ==
  Card(FALSE, <<>>, <<>>, FALSE, <<>>, TRUE, <<InStockText>>, FALSE, <<>>)

LowerInStockText == <<"i", "n", " ", "s", "t", "o", "c", "k">>

\* in stock (written in lower case), no price element
CardD ==
  Card(TRUE, <<"D">>, <<"d_4", "index.html">>,
       FALSE, <<>>,
       TRUE, <<LowerInStockText>>,
       TRUE, <<"star-rating", "One">>)

\* in stock, priced at the filter's threshold
CardE ==
  Card(TRUE, <<"E">>, <<"e_5", "index.html">>,
       TRUE, <<<<Pound, "3", "0", ".", "0", "0">>>>,
       TRUE, <<InStockText>>,
       TRUE, <<"star-rating", "Two">>)

\* cheap, but out of stock
CardF ==
  Card(TRUE, <<"F">>, <<"f_6", "index.html">>,
       TRUE, <<<<Pound, "5", ".", "0", "0">>>>,
       FALSE, <<>>,
       TRUE, <<"star-rating">>)

\* The card lists a catalogue page can hold.
PageKinds ==
  { <<CardA, CardB>>, <<CardC>>, <<>>, <<CardA, CardNoHeading>>,
    <<CardD, CardE, CardF>> }

\* The li.next > a anchor of a page.
NoNextAnchor == [present |-> FALSE, hasHref |-> FALSE, href |-> <<>>]

NextAnchor(href) == [present |-> TRUE, hasHref |-> TRUE, href |-> href]

\* a next anchor that lacks its href attribute
BareNextAnchor == [present |-> TRUE, hasHref |-> FALSE, href |-> <<>>]

\* How the chain of a site ends: the last page has no next anchor, links
\* back to the first page, or has a next anchor without href.
Tails == {"end", "cycle", "bare"}

PageFiles ==
  <<"page-1.html", "page-2.html", "page-3.html", "page-4.html",
    "page-5.html", "page-6.html">>

\* URL the site serves its i-th catalogue page under
PageUrl(i) == <<Origin, "catalogue", PageFiles[i]>>

\* A site of n pages: page i links to page i+1, the last page ends the
\* chain as the tail says.
Site(kinds, tail) ==
  [i \in 1..Len(kinds) |->
     [cards |-> kinds[i],
      next  |-> IF i < Len(kinds) THEN NextAnchor(<<PageFiles[i + 1]>>)
                ELSE IF tail = "cycle" THEN NextAnchor(<<PageFiles[1]>>)
                ELSE IF tail = "bare" THEN BareNextAnchor
                ELSE NoNextAnchor]]

Sites ==
  { Site(kinds, tail) :
      kinds \in UNION { [1..n -> PageKinds] : n \in 1..MaxPages },
      tail \in Tails }

Served(site, url) == \E i \in 1..Len(site) : PageUrl(i) = url

PageAt(site, url) == site[CHOOSE i \in 1..Len(site) : PageUrl(i) = url]

\* --------------------------------------------------------- page extractor
\* Variant: the product link is stored as found, not joined to the page URL.
CardRow_RelativeLink(card, page_url) ==
  [title        |-> Strip(card.title),
   price_raw    |-> IF card.hasPrice THEN get_text(card.price, <<>>) ELSE <<>>,
   availability |-> IF card.hasAvail THEN get_text(card.avail, <<" ">>) ELSE <<>>,
   rating       |-> IF card.hasRating
                      /\ \E k \in 1..Len(card.classes) : card.classes[k] # "star-rating"
                    THEN card.classes[CHOOSE k \in 1..Len(card.classes) :
                           /\ card.classes[k] # "star-rating"
                           /\ \A j \in 1..(k - 1) : card.classes[j] = "star-rating"]
                    ELSE "",
   product_url  |-> Strip(card.href)]

\* One row of parse_books_from_catalog_page (lines 103-133).
CardRow(card, page_url) ==
  [title        |-> Strip(card.title),
   price_raw    |-> IF card.hasPrice THEN get_text(card.price, <<>>) ELSE <<>>,
   availability |-> IF card.hasAvail THEN get_text(card.avail, <<" ">>) ELSE <<>>,
   rating       |-> IF card.hasRating
                      /\ \E k \in 1..Len(card.classes) : card.classes[k] # "star-rating"
                    THEN card.classes[CHOOSE k \in 1..Len(card.classes) :
                           /\ card.classes[k] # "star-rating"
                           /\ \A j \in 1..(k - 1) : card.classes[j] = "star-rating"]
                    ELSE "",
   product_url  |-> urljoin(page_url, Strip(card.href))]

\* parse_books_from_catalog_page(html, page_url): the rows, the next URL and
\* the exception the call ends with ("" when it returns).  card.h3.a on a
\* card without the heading link is an attribute access on None; the
\* subscript next_link_tag["href"] on an anchor without href is a KeyError.
parse_books_from_catalog_page(html, page_url) ==
  IF \E k \in 1..Len(html.cards) : ~html.cards[k].h3a
  THEN [raised |-> "AttributeError", rows |-> <<>>, next_url |-> None]
  ELSE IF html.next.present /\ ~html.next.hasHref
  THEN [raised |-> "KeyError", rows |-> <<>>, next_url |-> None]
  ELSE [raised   |-> "",
        rows     |-> [k \in 1..Len(html.cards) |-> CardRow(html.cards[k], page_url)],
        next_url |-> IF html.next.present
                     THEN urljoin(page_url, html.next.href) ELSE None]

\* ---------------------------------------------------------- configuration
\* ParserConfig.retry_statuses (line 23)
retry_statuses == {403, 408, 429, 500, 502, 503, 504}

\* What one session.get can end in: a response with one of these statuses,
\* or a RequestException.
Statuses == {200, 404, 503}

\* session.get returned a response with this status
Got(status) == [raised |-> FALSE, status_code |-> status]

\* session.get raised a RequestException (timeout, DNS, reset, ...)
RequestException == [raised |-> TRUE, status_code |-> 0]

Outcomes == {Got(st) : st \in Statuses} \cup {RequestException}

\* A value of `response`: the Response, or None.
NoResponse == [isNone |-> TRUE, status_code |-> 0, text |-> <<>>]

Response(status, html) == [isNone |-> FALSE, status_code |-> status, text |-> <<html>>]

\* ------------------------------------------------------------------ state
VARIABLES
  max_retries,   \* config.max_retries
  site,          \* the catalogue the server holds
  pc,            \* where the run is: "init", "loop", "fetch", "fetched",
                 \* "done" (scrape_all_books returned), "crawl_raised"
                 \* (an exception left scrape_all_books), "cleaned",
                 \* "clean_raised", "filtered"
  session,       \* requests.Session of the run: "none", "open", "closed"
  current_url,   \* scrape_all_books: current_url
  all_rows,      \* scrape_all_books: all_rows
  page_num,      \* scrape_all_books: page_num
  attempt,       \* fetch_with_retries: attempt
  response,      \* what fetch_with_retries returned to the driver
  outcomes,      \* outcomes of the session.get calls of the current fetch
  fetch_sleeps,  \* sleep_human calls made inside the current fetch
  requested,     \* URLs a request was sent for in this run
  crawl_sleeps,  \* sleep_human calls made by scrape_all_books itself
  ok_fetches,    \* fetch_with_retries calls that returned a response
  fetch_calls,   \* fetch_with_retries calls made
  error,         \* the exception that ended the run, "" when none
  df_clean,      \* what clean_and_validate returned
  df_filtered,   \* what filter_for_db returned
  other          \* the locals of a second run of scrape_all_books while the
                 \* variables above hold those of the run that is executing

vars ==
  <<max_retries, site, pc, session, current_url, all_rows, page_num, attempt,
    response, outcomes, fetch_sleeps, requested, crawl_sleeps, ok_fetches,
    fetch_calls, error, df_clean, df_filtered, other>>

\* What a step of one run leaves alone: the configuration, the site and the
\* locals of the other run.
config_vars == <<max_retries, site, other>>

\* The locals of a call of scrape_all_books that has not started (lines
\* 143-148: session, current_url, all_rows and page_num are locals of the
\* call, and so are the locals of the fetch_with_retries calls it makes).
NotStarted ==
  [pc |-> "init", session |-> "none", current_url |-> None, all_rows |-> <<>>,
   page_num |-> 0, attempt |-> 0, response |-> NoResponse, outcomes |-> <<>>,
   fetch_sleeps |-> 0, requested |-> {}, crawl_sleeps |-> 0, ok_fetches |-> 0,
   fetch_calls |-> 0, error |-> ""]

Init ==
  /\ max_retries \in (-1)..MaxRetries
  /\ site \in Sites
  /\ pc = "init"
  /\ session = "none"
  /\ current_url = None
  /\ all_rows = <<>>
  /\ page_num = 0
  /\ attempt = 0
  /\ response = NoResponse
  /\ outcomes = <<>>
  /\ fetch_sleeps = 0
  /\ requested = {}
  /\ crawl_sleeps = 0
  /\ ok_fetches = 0
  /\ fetch_calls = 0
  /\ error = ""
  /\ df_clean = <<>>
  /\ df_filtered = <<>>
  /\ other = NotStarted

\* ---------------------------------------------------------------- fetcher
\* Variant: the first attempt is made whatever the budget.
HasNextAttempt_AtLeastOnce(a, retries) == a < retries \/ a = 0

\* Variant: the range of the for loop is one iteration short.
HasNextAttempt_OneShort(a, retries) == a + 1 < retries

\* The for loop of fetch_with_retries has another iteration after this one.
HasNextAttempt(a, retries) == a < retries

\* Variant: an attempt that raised is not counted.
NextAttempt_ErrorsUncounted(a, o) == IF o.raised THEN a ELSE a + 1

\* The loop variable of the iteration that follows one that ended in o.
NextAttempt(a, o) == a + 1

\* Variant: every error status is retried.
IsRetryStatus_AnyError(status) == status >= 400

\* The status is one the fetcher retries.
IsRetryStatus(status) == status \in retry_statuses

\* Variant: a response that is not retried is returned whatever its status.
Classify_ReturnsAnyFinal(o) ==
  IF o.raised THEN "retry"
  ELSE IF IsRetryStatus(o.status_code) THEN "retry"
  ELSE "return"

\* What an attempt that ended in outcome o does next: "return" the response,
\* "retry" (sleep, next iteration) or "fail" (return None at once).
Classify(o) ==
  IF o.raised THEN "retry"
  ELSE IF o.status_code = 200 THEN "return"
  ELSE IF IsRetryStatus(o.status_code) THEN "retry"
  ELSE "fail"

\* scrape_all_books, lines 144-148: the session is created and the cursor
\* put on the first catalogue page.
Start ==
  /\ pc = "init"
  /\ session' = "open"
  /\ current_url' = urljoin(base_url, <<"catalogue", "page-1.html">>)
  /\ all_rows' = <<>>
  /\ page_num' = 0
  /\ pc' = "loop"
  /\ UNCHANGED <<config_vars, attempt, response, outcomes, fetch_sleeps,
                 requested, crawl_sleeps, ok_fetches, fetch_calls, error,
                 df_clean, df_filtered>>

\* Variant: the loop ends on a URL that was requested before.
LoopContinues_Unvisited(url, visited) == url # None /\ url \notin visited

\* `while current_url` (line 150); visited: the URLs requested so far, which
\* the test does not look at
LoopContinues(url, visited) == url # None

\* Variant: the page counter is advanced only when a request will be sent.
LoopHead_CountsRequestedPages ==
  /\ pc = "loop"
  /\ IF ~LoopContinues(current_url, requested)
     THEN /\ pc' = "done"
          /\ UNCHANGED <<page_num, attempt, response, outcomes, fetch_sleeps,
                         fetch_calls>>
     ELSE /\ page_num < MaxVisits
          /\ fetch_calls' = fetch_calls + 1
          /\ outcomes' = <<>>
          /\ fetch_sleeps' = 0
          /\ IF HasNextAttempt(0, max_retries)
             THEN /\ page_num' = page_num + 1
                  /\ attempt' = 1
                  /\ response' = NoResponse
                  /\ pc' = "fetch"
             ELSE /\ page_num' = page_num
                  /\ attempt' = 0
                  /\ response' = NoResponse
                  /\ pc' = "fetched"
  /\ UNCHANGED <<config_vars, session, current_url, all_rows, requested,
                 crawl_sleeps, ok_fetches, error, df_clean, df_filtered>>

\* Lines 150-154 and 60: the while test; on a URL the page counter is
\* incremented and fetch_with_retries is entered.  With an empty attempt
\* range the fetcher returns None before any request.
LoopHead ==
  /\ pc = "loop"
  /\ IF ~LoopContinues(current_url, requested)
     THEN /\ pc' = "done"
          /\ UNCHANGED <<page_num, attempt, response, outcomes, fetch_sleeps,
                         fetch_calls>>
     ELSE /\ page_num < MaxVisits
          /\ page_num' = page_num + 1
          /\ fetch_calls' = fetch_calls + 1
          /\ outcomes' = <<>>
          /\ fetch_sleeps' = 0
          /\ IF HasNextAttempt(0, max_retries)
             THEN /\ attempt' = 1
                  /\ response' = NoResponse
                  /\ pc' = "fetch"
             ELSE /\ attempt' = 0
                  /\ response' = NoResponse
                  /\ pc' = "fetched"
  /\ UNCHANGED <<config_vars, session, current_url, all_rows, requested,
                 crawl_sleeps, ok_fetches, error, df_clean, df_filtered>>

\* Variant: no sleep after the last attempt of the budget.
FetchAttempt_NoSleepOnLast ==
  /\ pc = "fetch"
  /\ \E o \in Outcomes :
       /\ o = Got(200) => Served(site, current_url)
       /\ outcomes' = Append(outcomes, o)
       /\ requested' = requested \cup {current_url}
       /\ CASE Classify(o) = "return" ->
                 /\ response' = Response(o.status_code, PageAt(site, current_url))
                 /\ ok_fetches' = ok_fetches + 1
                 /\ pc' = "fetched"
                 /\ UNCHANGED <<attempt, fetch_sleeps>>
            [] Classify(o) = "fail" ->
                 /\ response' = NoResponse
                 /\ pc' = "fetched"
                 /\ UNCHANGED <<attempt, fetch_sleeps, ok_fetches>>
            [] Classify(o) = "retry" ->
                 /\ response' = NoResponse
                 /\ IF HasNextAttempt(attempt, max_retries)
                    THEN /\ fetch_sleeps' = fetch_sleeps + 1
                         /\ attempt' = NextAttempt(attempt, o)
                         /\ pc' = "fetch"
                    ELSE /\ fetch_sleeps' = fetch_sleeps
                         /\ attempt' = attempt
                         /\ pc' = "fetched"
                 /\ UNCHANGED ok_fetches
  /\ UNCHANGED <<config_vars, session, current_url, all_rows, page_num,
                 crawl_sleeps, fetch_calls, error, df_clean, df_filtered>>

\* Lines 60-93: one iteration of the for loop, from session.get to the
\* return, or to the sleep_human that precedes the next iteration.
FetchAttempt ==
  /\ pc = "fetch"
  /\ \E o \in Outcomes :
       /\ o = Got(200) => Served(site, current_url)
       /\ outcomes' = Append(outcomes, o)
       /\ requested' = requested \cup {current_url}
       /\ CASE Classify(o) = "return" ->
                 /\ response' = Response(o.status_code, PageAt(site, current_url))
                 /\ ok_fetches' = ok_fetches + 1
                 /\ pc' = "fetched"
                 /\ UNCHANGED <<attempt, fetch_sleeps>>
            [] Classify(o) = "fail" ->
                 /\ response' = NoResponse
                 /\ pc' = "fetched"
                 /\ UNCHANGED <<attempt, fetch_sleeps, ok_fetches>>
            [] Classify(o) = "retry" ->
                 /\ fetch_sleeps' = fetch_sleeps + 1
                 /\ response' = NoResponse
                 /\ IF HasNextAttempt(attempt, max_retries)
                    THEN attempt' = NextAttempt(attempt, o) /\ pc' = "fetch"
                    ELSE attempt' = attempt /\ pc' = "fetched"
                 /\ UNCHANGED ok_fetches
  /\ UNCHANGED <<config_vars, session, current_url, all_rows, page_num,
                 crawl_sleeps, fetch_calls, error, df_clean, df_filtered>>

\* ----------------------------------------------------------------- driver
\* Variant: pages are numbered from 0.
TagRows_FromZero(rows, n) == [k \in 1..Len(rows) |-> [page_num |-> n - 1] @@ rows[k]]

\* r["page_num"] = page_num for every row (lines 162-163)
TagRows(rows, n) == [k \in 1..Len(rows) |-> [page_num |-> n] @@ rows[k]]

\* Variant: the rows of the page are put before the accumulated ones.
Extend_Prepend(acc, rows) == rows \o acc

\* all_rows.extend(rows) (line 165)
Extend(acc, rows) == acc \o rows

\* Variant: a page without records does not stop the crawl.
ShouldStop_Never(rows) == FALSE

\* `if not rows` (line 168): the page gave no record, the crawl stops
ShouldStop(rows) == rows = <<>>

\* Variant: the politeness delay comes before the test for an empty page.
HandlePage_SleepsBeforeStop ==
  /\ pc = "fetched"
  /\ IF response.isNone
     THEN /\ pc' = "done"
          /\ UNCHANGED <<current_url, all_rows, crawl_sleeps, error>>
     ELSE LET parsed == parse_books_from_catalog_page(response.text[1], current_url)
              rows   == TagRows(parsed.rows, page_num)
          IN  IF parsed.raised # ""
              THEN /\ pc' = "crawl_raised"
                   /\ error' = parsed.raised
                   /\ UNCHANGED <<current_url, all_rows, crawl_sleeps>>
              ELSE /\ all_rows' = Extend(all_rows, rows)
                   /\ crawl_sleeps' = crawl_sleeps + 1
                   /\ IF ShouldStop(rows)
                      THEN /\ pc' = "done"
                           /\ UNCHANGED current_url
                      ELSE /\ current_url' = parsed.next_url
                           /\ pc' = "loop"
                   /\ UNCHANGED error
  /\ UNCHANGED <<config_vars, session, page_num, attempt, response, outcomes,
                 fetch_sleeps, requested, ok_fetches, fetch_calls, df_clean,
                 df_filtered>>

\* Lines 155-173: the rest of the loop body once fetch_with_retries has
\* returned.
HandlePage ==
  /\ pc = "fetched"
  /\ IF response.isNone
     THEN /\ pc' = "done"
          /\ UNCHANGED <<current_url, all_rows, crawl_sleeps, error>>
     ELSE LET parsed == parse_books_from_catalog_page(response.text[1], current_url)
              rows   == TagRows(parsed.rows, page_num)
          IN  IF parsed.raised # ""
              THEN /\ pc' = "crawl_raised"
                   /\ error' = parsed.raised
                   /\ UNCHANGED <<current_url, all_rows, crawl_sleeps>>
              ELSE /\ all_rows' = Extend(all_rows, rows)
                   /\ IF ShouldStop(rows)
                      THEN /\ pc' = "done"
                           /\ UNCHANGED <<current_url, crawl_sleeps>>
                      ELSE /\ current_url' = parsed.next_url
                           /\ crawl_sleeps' = crawl_sleeps + 1
                           /\ pc' = "loop"
                   /\ UNCHANGED error
  /\ UNCHANGED <<config_vars, session, page_num, attempt, response, outcomes,
                 fetch_sleeps, requested, ok_fetches, fetch_calls, df_clean,
                 df_filtered>>

\* --------------------------------------------------------------- cleaning
Digits == {"0", "1", "2", "3", "4", "5", "6", "7", "8", "9"}

DigitValue(c) ==
  CASE c = "0" -> 0 [] c = "1" -> 1 [] c = "2" -> 2 [] c = "3" -> 3
    [] c = "4" -> 4 [] c = "5" -> 5 [] c = "6" -> 6 [] c = "7" -> 7
    [] c = "8" -> 8 [] c = "9" -> 9

\* str.replace(r"[^\d.]", "", regex=True): only digits and dots are kept
RECURSIVE KeepDigitsAndDots(_)
KeepDigitsAndDots(s) ==
  IF s = <<>> THEN <<>>
  ELSE IF Head(s) \in Digits \cup {"."}
       THEN <<Head(s)>> \o KeepDigitsAndDots(Tail(s))
       ELSE KeepDigitsAndDots(Tail(s))

RECURSIVE CountDots(_)
CountDots(s) ==
  IF s = <<>> THEN 0
  ELSE (IF Head(s) = "." THEN 1 ELSE 0) + CountDots(Tail(s))

RECURSIVE DigitsAfterDot(_)
DigitsAfterDot(s) ==
  IF s = <<>> THEN 0
  ELSE IF Head(s) = "." THEN Len(s) - 1
  ELSE DigitsAfterDot(Tail(s))

RECURSIVE DigitsNumber(_, _)
DigitsNumber(s, acc) ==
  IF s = <<>> THEN acc
  ELSE IF Head(s) = "." THEN DigitsNumber(Tail(s), acc)
  ELSE DigitsNumber(Tail(s), 10 * acc + DigitValue(Head(s)))

RECURSIVE PowerOfTen(_)
PowerOfTen(n) == IF n = 0 THEN 1 ELSE 10 * PowerOfTen(n - 1)

NaN == [nan |-> TRUE, num |-> 0, den |-> 1]

\* pd.to_numeric(errors="coerce") on a string of digits and dots: the number
\* num/den, or NaN when the string is no decimal numeral.
to_numeric(s) ==
  IF CountDots(s) > 1 \/ Len(s) = CountDots(s) THEN NaN
  ELSE [nan |-> FALSE, num |-> DigitsNumber(s, 0),
        den |-> PowerOfTen(DigitsAfterDot(s))]

\* lines 186-192
price_gbp(price_raw) == to_numeric(KeepDigitsAndDots(price_raw))

\* Variant: keep="last", the last row of every product URL is kept.
RECURSIVE drop_duplicates_KeepLast(_, _)
drop_duplicates_KeepLast(rows, seen) ==
  IF rows = <<>> THEN <<>>
  ELSE IF \E k \in 2..Len(rows) : rows[k].product_url = Head(rows).product_url
       THEN drop_duplicates_KeepLast(Tail(rows), seen)
       ELSE <<Head(rows)>> \o drop_duplicates_KeepLast(Tail(rows), seen)

\* df.drop_duplicates(subset=["product_url"]): the first row of every
\* product URL is kept, in order (line 206).
RECURSIVE drop_duplicates(_, _)
drop_duplicates(rows, seen) ==
  IF rows = <<>> THEN <<>>
  ELSE IF Head(rows).product_url \in seen
       THEN drop_duplicates(Tail(rows), seen)
       ELSE <<Head(rows)>>
              \o drop_duplicates(Tail(rows), seen \cup {Head(rows).product_url})

\* Variant: the emptiness test never fires.
IsEmptyFrame_Never(rows) == FALSE

\* df.empty of pd.DataFrame(rows)
IsEmptyFrame(rows) == Len(rows) = 0

\* clean_and_validate(df), lines 180-223, called by main on the crawl's
\* result: ValueError on an empty frame, else the priced, deduplicated rows.
clean_and_validate ==
  /\ pc = "done"
  /\ IF IsEmptyFrame(all_rows)
     THEN /\ pc' = "clean_raised"
          /\ error' = "ValueError"
          /\ UNCHANGED df_clean
     ELSE /\ pc' = "cleaned"
          /\ df_clean' =
               drop_duplicates(
                 [k \in 1..Len(all_rows) |->
                    [price_gbp |-> price_gbp(all_rows[k].price_raw)] @@ all_rows[k]],
                 {})
          /\ UNCHANGED error
  /\ UNCHANGED <<config_vars, session, current_url, all_rows, page_num,
                 attempt, response, outcomes, fetch_sleeps, requested,
                 crawl_sleeps, ok_fetches, fetch_calls, df_filtered>>

\* ------------------------------------------------------------- filtering
UpperLetters ==
  <<"A", "B", "C", "D", "E", "F", "G", "H", "I", "J", "K", "L", "M",
    "N", "O", "P", "Q", "R", "S", "T", "U", "V", "W", "X", "Y", "Z">>

LowerLetters ==
  <<"a", "b", "c", "d", "e", "f", "g", "h", "i", "j", "k", "l", "m",
    "n", "o", "p", "q", "r", "s", "t", "u", "v", "w", "x", "y", "z">>

LowerChar(c) ==
  IF \E i \in 1..26 : UpperLetters[i] = c
  THEN LowerLetters[CHOOSE i \in 1..26 : UpperLetters[i] = c]
  ELSE c

Lower(s) == [k \in 1..Len(s) |-> LowerChar(s[k])]

\* str.contains(pat, case=False) for a pattern of plain characters
ContainsIgnoreCase(s, pat) ==
  \E i \in 0..(Len(s) - Len(pat)) :
    SubSeq(Lower(s), i + 1, i + Len(pat)) = Lower(pat)

\* mask_in_stock (line 231)
mask_in_stock(row) == ContainsIgnoreCase(row.availability, InStockText)

\* Variant: the threshold itself passes.
mask_price_AtMost30(row) ==
  ~row.price_gbp.nan /\ row.price_gbp.num <= 30 * row.price_gbp.den

\* mask_price (line 232): the price was parsed and is below 30
mask_price(row) == ~row.price_gbp.nan /\ row.price_gbp.num < 30 * row.price_gbp.den

\* df.loc[mask] (line 233): the rows the mask holds of, in order
RECURSIVE KeepRows(_)
KeepRows(rows) ==
  IF rows = <<>> THEN <<>>
  ELSE IF mask_in_stock(Head(rows)) /\ mask_price(Head(rows))
       THEN <<Head(rows)>> \o KeepRows(Tail(rows))
       ELSE KeepRows(Tail(rows))

\* filter_for_db(df_clean), lines 227-234, called by main (line 279)
filter_for_db ==
  /\ pc = "cleaned"
  /\ df_filtered' = KeepRows(df_clean)
  /\ pc' = "filtered"
  /\ UNCHANGED <<config_vars, session, current_url, all_rows, page_num,
                 attempt, response, outcomes, fetch_sleeps, requested,
                 crawl_sleeps, ok_fetches, fetch_calls, error, df_clean>>

\* ---------------------------------------------------------- specification
Next ==
  \/ Start
  \/ LoopHead
  \/ FetchAttempt
  \/ HandlePage
  \/ clean_and_validate
  \/ filter_for_db

Spec == Init /\ [][Next]_vars

\* The cleaning and filtering stages on their own: main's df_raw is any
\* frame of at most MaxRows raw rows.
RawRows ==
  { [page_num |-> n] @@ CardRow(c, PageUrl(1)) :
      c \in {CardA, CardB, CardC, CardD, CardE}, n \in 1..2 }

InitClean ==
  /\ max_retries = 1
  /\ site = Site(<<<<CardA, CardB>>, <<CardC>>>>, "end")
  /\ pc = "done"
  /\ session = "open"
  /\ current_url = None
  /\ all_rows \in UNION { [1..n -> RawRows] : n \in 0..MaxRows }
  /\ page_num = 2
  /\ attempt = 0
  /\ response = NoResponse
  /\ outcomes = <<>>
  /\ fetch_sleeps = 0
  /\ requested = {}
  /\ crawl_sleeps = 0
  /\ ok_fetches = 0
  /\ fetch_calls = 0
  /\ error = ""
  /\ df_clean = <<>>
  /\ df_filtered = <<>>
  /\ other = NotStarted

NextClean ==
  \/ clean_and_validate
  \/ filter_for_db

SpecClean == InitClean /\ [][NextClean]_vars

\* One run on a small site that, being a sequential program, keeps taking
\* its next step as long as it has one.
SitesLive ==
  { Site(kinds, tail) :
      kinds \in UNION { [1..n -> {<<CardA, CardB>>, <<CardC>>, <<>>,
                                  <<CardA, CardNoHeading>>}] :
                          n \in 1..MaxPagesLive },
      tail \in Tails }

InitLive ==
  /\ Init
  /\ max_retries \in 1..MaxRetriesLive
  /\ site \in SitesLive

LiveSpec == InitLive /\ [][Next]_vars /\ WF_vars(Next)

\* Two runs of scrape_all_books executing concurrently against one site
\* with one configuration: the steps of either run are taken in any order.
SitesTwo ==
  { Site(kinds, "end") :
      kinds \in UNION { [1..n -> {<<CardA, CardB>>, <<CardC>>, <<>>}] :
                          n \in 1..MaxPagesTwo } }

InitTwo ==
  /\ Init
  /\ max_retries \in 1..MaxRetriesTwo
  /\ site \in SitesTwo

\* The locals of the run that is executing
Locals ==
  [pc |-> pc, session |-> session, current_url |-> current_url,
   all_rows |-> all_rows, page_num |-> page_num, attempt |-> attempt,
   response |-> response, outcomes |-> outcomes,
   fetch_sleeps |-> fetch_sleeps, requested |-> requested,
   crawl_sleeps |-> crawl_sleeps, ok_fetches |-> ok_fetches,
   fetch_calls |-> fetch_calls, error |-> error]

\* Variant: all_rows is one list that both runs append to.
Switch_SharedAccumulator ==
  /\ other' = Locals
  /\ pc' = other.pc
  /\ session' = other.session
  /\ current_url' = other.current_url
  /\ all_rows' = all_rows
  /\ page_num' = other.page_num
  /\ attempt' = other.attempt
  /\ response' = other.response
  /\ outcomes' = other.outcomes
  /\ fetch_sleeps' = other.fetch_sleeps
  /\ requested' = other.requested
  /\ crawl_sleeps' = other.crawl_sleeps
  /\ ok_fetches' = other.ok_fetches
  /\ fetch_calls' = other.fetch_calls
  /\ error' = other.error
  /\ UNCHANGED <<max_retries, site, df_clean, df_filtered>>

\* The other run is scheduled: every local of scrape_all_books and of its
\* fetch_with_retries call belongs to the run (lines 51-55, 143-148).
Switch ==
  /\ other' = Locals
  /\ pc' = other.pc
  /\ session' = other.session
  /\ current_url' = other.current_url
  /\ all_rows' = other.all_rows
  /\ page_num' = other.page_num
  /\ attempt' = other.attempt
  /\ response' = other.response
  /\ outcomes' = other.outcomes
  /\ fetch_sleeps' = other.fetch_sleeps
  /\ requested' = other.requested
  /\ crawl_sleeps' = other.crawl_sleeps
  /\ ok_fetches' = other.ok_fetches
  /\ fetch_calls' = other.fetch_calls
  /\ error' = other.error
  /\ UNCHANGED <<max_retries, site, df_clean, df_filtered>>

NextTwo ==
  \/ Start
  \/ LoopHead
  \/ FetchAttempt
  \/ HandlePage
  \/ Switch

SpecTwo == InitTwo /\ [][NextTwo]_vars

\* ------------------------------------------------------ fetcher properties
RetryableStatus(o) == ~o.raised /\ o.status_code \in retry_statuses

FatalStatus(o) ==
  ~o.raised /\ o.status_code # 200 /\ o.status_code \notin retry_statuses

Transient(o) == o.raised \/ RetryableStatus(o)

\* fetch_with_retries has returned and the driver has not yet acted on it
FetchReturned == pc = "fetched"

\* C1: with max_retries = R >= 1, a fetch whose attempts before the last all
\* ended in a retryable status makes at most R requests; when its last
\* attempt got a 200 it returns that response of the requested page, and
\* when every attempt ended in a retryable status it made all R attempts and
\* returns None.
C1_RetryBudget ==
  (/\ FetchReturned
   /\ max_retries >= 1
   /\ \A k \in 1..(Len(outcomes) - 1) : RetryableStatus(outcomes[k]))
  =>
  /\ Len(outcomes) <= max_retries
  /\ (outcomes # <<>> /\ Last(outcomes) = Got(200))
       => /\ ~response.isNone
          /\ response.status_code = 200
          /\ response.text = <<PageAt(site, current_url)>>
  /\ (\A k \in 1..Len(outcomes) : RetryableStatus(outcomes[k]))
       => /\ response.isNone
          /\ Len(outcomes) = max_retries

\* R - 1 retryable statuses, then a 200 on the R-th attempt (R >= 2)
C1_Witness ==
  /\ FetchReturned
  /\ max_retries >= 2
  /\ Len(outcomes) = max_retries
  /\ \A k \in 1..(Len(outcomes) - 1) : RetryableStatus(outcomes[k])
  /\ Last(outcomes) = Got(200)
  /\ ~response.isNone

\* C2: a response whose status is neither 200 nor retryable is the last
\* request of its fetch: the fetch has returned None, and the only delays of
\* the fetch are those of the attempts before it (one request and no delay
\* when it is the first attempt).
C2_FatalStatusEndsFetch ==
  \A k \in 1..Len(outcomes) :
    FatalStatus(outcomes[k]) =>
      /\ k = Len(outcomes)
      /\ pc # "fetch"
      /\ response.isNone
      /\ fetch_sleeps = k - 1

\* a 404 on the first attempt of a fetch that could have retried
C2_Witness ==
  /\ FetchReturned
  /\ max_retries >= 2
  /\ outcomes = <<Got(404)>>
  /\ response.isNone
  /\ fetch_sleeps = 0

\* C3: the fetch returns a response only when that response has status 200,
\* and the first 200 ends it: a 200 is the last request of its fetch, and
\* the fetch then returns the response (k requests when attempt k got it).
C3_SuccessOnFirst200 ==
  (pc \in {"fetch", "fetched"}) =>
    /\ ~response.isNone =>
         /\ response.status_code = 200
         /\ outcomes # <<>>
         /\ Last(outcomes) = Got(200)
    /\ \A k \in 1..Len(outcomes) :
         outcomes[k] = Got(200) =>
           /\ k = Len(outcomes)
           /\ k <= max_retries
           /\ FetchReturned
           /\ ~response.isNone

\* the 200 comes on the second attempt, with another attempt still allowed
C3_Witness ==
  /\ FetchReturned
  /\ max_retries >= 3
  /\ Len(outcomes) = 2
  /\ Transient(outcomes[1])
  /\ outcomes[2] = Got(200)
  /\ ~response.isNone

\* C4: network errors and retryable statuses share one budget: a fetch never
\* makes more than max_retries requests, and a fetch that has returned with
\* no 200 among its attempts returned None.
C4_SharedBudget ==
  /\ Len(outcomes) <= (IF max_retries > 0 THEN max_retries ELSE 0)
  /\ (FetchReturned /\ \A k \in 1..Len(outcomes) : outcomes[k] # Got(200))
       => response.isNone

\* the budget is used up by a mix of network errors and retryable statuses
C4_Witness ==
  /\ FetchReturned
  /\ max_retries >= 2
  /\ Len(outcomes) = max_retries
  /\ \E k \in 1..Len(outcomes) : outcomes[k].raised
  /\ \E k \in 1..Len(outcomes) : RetryableStatus(outcomes[k])
  /\ \A k \in 1..Len(outcomes) : Transient(outcomes[k])
  /\ response.isNone

\* ------------------------------------------------------- driver properties
\* The last page of the site links back to the first page.
IsCyclic(s) == s[Len(s)].next.present /\ s[Len(s)].next.hasHref

\* The chain of the site ends on a page without next anchor.
IsLinear(s) == ~s[Len(s)].next.present

\* Index of the page the v-th loop iteration is on when the chain is
\* followed from the first page.
VisitIndex(s, v) == IF IsCyclic(s) THEN ((v - 1) % Len(s)) + 1 ELSE v

VisitUrl(s, v) == PageUrl(VisitIndex(s, v))

\* The records of the i-th page of the site, numbered as page n.
PageRows(s, i, n) ==
  [k \in 1..Len(s[i].cards) |->
     [page_num |-> n] @@ CardRow(s[i].cards[k], PageUrl(i))]

\* The records of the first m pages visited, in page and card order.
ExpectedRows(s, m) ==
  Flatten([v \in 1..m |-> PageRows(s, VisitIndex(s, v), v)])

\* scrape_all_books has returned its frame
Returned == pc = "done"

\* C5: on a linear chain whose pages all hold a card, a crawl whose fetches
\* all succeeded returns the records of all n pages in page and card order,
\* the records of page i numbered i.
C5_FullChain ==
  (/\ Returned
   /\ IsLinear(site)
   /\ \A i \in 1..Len(site) : site[i].cards # <<>>
   /\ ok_fetches = fetch_calls)
  =>
  /\ page_num = Len(site)
  /\ all_rows = ExpectedRows(site, Len(site))
  /\ \A k \in 1..Len(all_rows) :
       \E i \in 1..Len(site) :
         /\ all_rows[k].page_num = i
         /\ \E c \in 1..Len(site[i].cards) :
              all_rows[k].product_url = urljoin(PageUrl(i), site[i].cards[c].href)

\* a three-page chain crawled to its end
C5_Witness ==
  /\ Returned
  /\ IsLinear(site)
  /\ Len(site) = 3
  /\ ok_fetches = 3
  /\ fetch_calls = 3
  /\ current_url = None
  /\ Len(all_rows) >= 4
  /\ all_rows[Len(all_rows)].page_num = 3

\* C6: the crawl stops at the first page whose fetch failed or that gave no
\* record: no page behind a page without cards is ever requested, and a
\* crawl that returned with its cursor still on a page k stopped on a failed
\* fetch or an empty page, requested nothing but pages 1..k and returns the
\* records of pages 1..k-1.
C6_StopsAtFirstFailure ==
  /\ \A k \in 1..Len(site) : \A j \in 1..Len(site) :
       (k < j /\ site[k].cards = <<>>) => PageUrl(j) \notin requested
  /\ (Returned /\ current_url # None) =>
       /\ response.isNone \/ PageAt(site, current_url).cards = <<>>
       /\ current_url = VisitUrl(site, page_num)
       /\ requested \subseteq {VisitUrl(site, v) : v \in 1..page_num}
       /\ all_rows = ExpectedRows(site, page_num - 1)

\* the fetch of the third page failed after two pages were collected
C6_Witness ==
  /\ Returned
  /\ page_num = 3
  /\ response.isNone
  /\ outcomes # <<>>
  /\ current_url = PageUrl(3)
  /\ Len(all_rows) >= 2
  /\ PageAt(site, current_url).cards # <<>>

\* C7: the session of the run is closed once scrape_all_books has returned.
C7_SessionReleased == Returned => session = "closed"

\* C8 as stated: one politeness delay of the driver for every fetch that
\* returned a response, once the driver has dealt with the page.
C8_SleepAfterEveryOkFetch ==
  (pc \in {"loop", "done"}) => crawl_sleeps = ok_fetches

\* Number of pages that contributed records
PagesWithRows == Cardinality({all_rows[k].page_num : k \in 1..Len(all_rows)})

\* C8 (amended): the driver sleeps exactly once for every fetched page that
\* gave at least one record (the last page of the chain included) and not
\* at all for a fetched page without records; the fetcher itself has slept
\* only for the attempts before the one that got the 200.
C8_SleepAfterEveryPageWithRows ==
  /\ crawl_sleeps = PagesWithRows
  /\ (pc \in {"loop", "done"}) =>
       crawl_sleeps = ok_fetches - (IF Returned /\ current_url # None /\ ~response.isNone
                                    THEN 1 ELSE 0)
  /\ (FetchReturned /\ ~response.isNone) => fetch_sleeps = Len(outcomes) - 1

\* two pages fetched, the second without records: one delay only
C8_Witness ==
  /\ Returned
  /\ ok_fetches = 2
  /\ crawl_sleeps = 1
  /\ ~response.isNone
  /\ PageAt(site, current_url).cards = <<>>

\* C9: no exception leaves scrape_all_books.
C9_NoErrorEscapes == pc # "crawl_raised"

\* C10: a crawl without records returns normally with an empty frame, and
\* clean_and_validate ends in the ValueError exactly when the frame it is
\* given is empty: it never returns a dataset for it.
C10_EmptyCrawlRejected ==
  /\ (Returned /\ all_rows = <<>>) => error = ""
  /\ (pc \in {"cleaned", "clean_raised"}) =>
       (pc = "clean_raised" <=> all_rows = <<>>)
  /\ pc = "clean_raised" => (error = "ValueError" /\ df_clean = <<>>)
  /\ pc = "cleaned" => df_clean # <<>>

\* an empty first page: the crawl returned nothing and the cleaning raised
C10_Witness ==
  /\ pc = "clean_raised"
  /\ all_rows = <<>>
  /\ ok_fetches = 1
  /\ page_num = 1
  /\ error = "ValueError"

\* ----------------------------------------------------- cleaning properties
\* The rows of a frame with their parsed price
Priced(rows) ==
  [k \in 1..Len(rows) |-> [price_gbp |-> price_gbp(rows[k].price_raw)] @@ rows[k]]

\* Positions of the rows that are the first of their product URL
FirstPositions(rows) ==
  { k \in 1..Len(rows) :
      \A j \in 1..(k - 1) : rows[j].product_url # rows[k].product_url }

\* The rows at the given positions, by increasing position
RECURSIVE RowsAt(_, _)
RowsAt(rows, positions) ==
  IF positions = {} THEN <<>>
  ELSE LET m == CHOOSE k \in positions : \A j \in positions : k <= j
       IN  <<rows[m]>> \o RowsAt(rows, positions \ {m})

\* clean_and_validate has returned its frame
Cleaned == pc \in {"cleaned", "filtered"}

\* C11: deduplicating the deduplicated frame changes nothing; the frame
\* holds every product URL once, and it is the first row of each URL of the
\* input, in the input's order.
C11_DedupIdempotent ==
  Cleaned =>
    /\ drop_duplicates(df_clean, {}) = df_clean
    /\ \A j \in 1..Len(df_clean) : \A k \in 1..Len(df_clean) :
         df_clean[j].product_url = df_clean[k].product_url => j = k
    /\ df_clean = RowsAt(Priced(all_rows), FirstPositions(all_rows))

\* a frame whose second row repeats the URL of the first with another
\* page number, followed by a row of another URL
C11_Witness ==
  /\ Cleaned
  /\ Len(all_rows) = 3
  /\ all_rows[1].product_url = all_rows[2].product_url
  /\ all_rows[1].page_num # all_rows[2].page_num
  /\ all_rows[3].product_url # all_rows[1].product_url
  /\ Len(df_clean) = 2
  /\ df_clean[1].page_num = all_rows[1].page_num

\* ---------------------------------------------------- filtering properties
\* The two-page scenario: page 1 holds a 10.00 card in stock and a 35.00
\* card out of stock and links to page 2, which holds a 5.00 card in stock
\* and no next link.
ScenarioSite == Site(<<<<CardA, CardB>>, <<CardC>>>>, "end")

Pounds(n) == [nan |-> FALSE, num |-> 100 * n, den |-> 100]

\* filter_for_db has returned its frame
Filtered == pc = "filtered"

\* C12: the filtered frame is the rows of the cleaned frame that are in
\* stock with a parsed price below 30, in order (of the cards of the model
\* these are exactly the 10.00 and the 5.00 card); in the two-page scenario
\* the crawl gives 3 raw records, the prices 10, 35 and 5, and the filtered
\* frame is the 10.00 and the 5.00 item.
C12_FilterForDb ==
  Filtered =>
    /\ df_filtered =
         RowsAt(df_clean,
                { k \in 1..Len(df_clean) :
                    /\ ContainsIgnoreCase(df_clean[k].availability, InStockText)
                    /\ ~df_clean[k].price_gbp.nan
                    /\ df_clean[k].price_gbp.num < 30 * df_clean[k].price_gbp.den })
    /\ \A k \in 1..Len(df_filtered) : df_filtered[k].title \in {<<"A">>, <<"C">>}
    /\ \A k \in 1..Len(df_clean) :
         df_clean[k].title \in {<<"A">>, <<"C">>}
           => \E j \in 1..Len(df_filtered) : df_filtered[j] = df_clean[k]
    /\ (site = ScenarioSite /\ fetch_calls = 2 /\ ok_fetches = 2) =>
         /\ Len(all_rows) = 3
         /\ [k \in 1..Len(df_clean) |-> df_clean[k].price_gbp]
              = <<Pounds(10), Pounds(35), Pounds(5)>>
         /\ [k \in 1..Len(df_filtered) |-> df_filtered[k].price_raw]
              = << <<Pound, "1", "0", ".", "0", "0">>, <<Pound, "5", ".", "0", "0">> >>
         /\ [k \in 1..Len(df_filtered) |-> df_filtered[k].page_num] = <<1, 2>>

\* the scenario, crawled to its end, cleaned and filtered
C12_Witness ==
  /\ Filtered
  /\ site = ScenarioSite
  /\ fetch_calls = 2
  /\ ok_fetches = 2
  /\ Len(all_rows) = 3
  /\ Len(df_filtered) = 2

\* ---------------------------------------------------- extractor properties
\* A card of the template: it has its heading link, with a title that is
\* not blank and a link target.
WellFormedCard(card) ==
  /\ card.h3a
  /\ \E k \in 1..Len(card.title) : card.title[k] \notin Whitespace
  /\ card.href # <<>>

\* A page of the template with at least one card
WellFormedPage(html) ==
  /\ html.cards # <<>>
  /\ \A k \in 1..Len(html.cards) : WellFormedCard(html.cards[k])
  /\ html.next.present => html.next.hasHref

\* The last n elements of a sequence
Suffix(seq, n) == SubSeq(seq, Len(seq) - n + 1, Len(seq))

\* The step in which the driver has the fetched page of the template
\* extracted: the N rows it appends and the cursor it sets are those the
\* extractor returned.
ExtractsAsPromised ==
  LET html == response.text[1]
      n    == Len(html.cards)
      new  == Suffix(all_rows', n)
  IN  /\ Len(all_rows') = Len(all_rows) + n
      /\ \A k \in 1..n :
           /\ new[k].title # <<>>
           /\ Head(new[k].title) \notin Whitespace
           /\ Last(new[k].title) \notin Whitespace
           /\ IsAbsoluteUrl(new[k].product_url)
           /\ Len(new[k].product_url) >= 3
           /\ Last(new[k].product_url) = Last(html.cards[k].href)
           /\ new[k].product_url[Len(new[k].product_url) - 1]
                = html.cards[k].href[Len(html.cards[k].href) - 1]
           /\ ~html.cards[k].hasRating => new[k].rating = ""
           /\ new[k].rating # "star-rating"
      /\ current_url' = None <=> ~html.next.present
      /\ html.next.present =>
           current_url' = <<Origin, "catalogue">> \o html.next.href

\* C13: on a fetched page with N >= 1 well-formed cards the extractor gives
\* N rows in card order, each with a trimmed non-empty title and an absolute
\* product URL, the rating "" when the card has no star-rating marker; the
\* next URL is absent exactly when the page has no next anchor, and else is
\* the anchor's href resolved against the page's URL.
C13_Extractor ==
  [][(pc = "fetched" /\ ~response.isNone /\ WellFormedPage(response.text[1]))
       => ExtractsAsPromised]_vars

\* the second page of the scenario has been extracted: a card without
\* rating marker, no next anchor
C13_Witness ==
  /\ pc = "loop"
  /\ site = ScenarioSite
  /\ page_num = 2
  /\ Len(all_rows) = 3
  /\ all_rows[3].rating = ""
  /\ all_rows[1].rating = "Three"
  /\ all_rows[2].rating = "Five"
  /\ current_url = None

\* -------------------------------------------------- concurrency properties
\* What a run with locals r returns when it executes alone and its fetches
\* end as they did: the records of the pages it handled, and once it has
\* returned those of all pages before the one it stopped on.
AsAlone(r) ==
  /\ r.page_num = r.fetch_calls
  /\ r.all_rows = ExpectedRows(site, r.crawl_sleeps)
  /\ r.requested \subseteq {VisitUrl(site, v) : v \in 1..r.page_num}
  /\ r.pc = "done" =>
       /\ r.session = "open"
       /\ r.all_rows =
            ExpectedRows(site, IF r.current_url = None
                               THEN r.page_num ELSE r.page_num - 1)
       /\ r.current_url # None =>
            /\ r.current_url = VisitUrl(site, r.page_num)
            /\ r.response.isNone \/ PageAt(site, r.current_url).cards = <<>>

\* C14: under every interleaving of the steps of two runs, each run has its
\* own accumulator, page counter, cursor and session, and what it has
\* collected and returns is what it would when executing alone.
C14_RunsIndependent == AsAlone(Locals) /\ AsAlone(other)

\* both runs have returned from the scenario site: one crawled it to the
\* end, the other lost its second page
C14_Witness ==
  /\ site = ScenarioSite
  /\ pc = "done"
  /\ other.pc = "done"
  /\ current_url = None
  /\ Len(all_rows) = 3
  /\ other.response.isNone
  /\ other.page_num = 2
  /\ Len(other.all_rows) = 2

\* ------------------------------------------------------ counter properties
\* C15: the page counter is 0 until the crawl loop runs, never decreases,
\* changes only by the increment of 1 that enters the fetcher, and so equals
\* the number of fetch_with_retries calls made, whatever became of them.
C15_PageCounter ==
  [][/\ page_num = fetch_calls
     /\ page_num' = fetch_calls'
     /\ pc = "init" => (page_num = 0 /\ page_num' = 0)
     /\ page_num' >= page_num
     /\ page_num' # page_num =>
          /\ page_num' = page_num + 1
          /\ pc = "loop"
          /\ pc' \in {"fetch", "fetched"}
          /\ outcomes' = <<>>
     /\ (pc' \in {"fetch", "fetched"} /\ pc = "loop") => page_num' = page_num + 1]_vars

\* three pages were numbered although the third fetch failed
C15_Witness ==
  /\ Returned
  /\ page_num = 3
  /\ fetch_calls = 3
  /\ ok_fetches = 2
  /\ response.isNone
  /\ Len(all_rows) >= 2

\* -------------------------------------------------- accumulator properties
IsPrefix(a, b) == Len(a) <= Len(b) /\ SubSeq(b, 1, Len(a)) = a

\* C16: every step leaves the accumulator as it is or appends to it; rows
\* are appended only by the step that extracts a fetched page, numbered
\* with the page counter; the page numbers along the accumulator never
\* decrease and never exceed the page counter.
C16_AppendOnly ==
  [][/\ IsPrefix(all_rows, all_rows')
     /\ all_rows' # all_rows =>
          /\ pc = "fetched"
          /\ ~response.isNone
          /\ pc' = "loop"
          /\ \A k \in (Len(all_rows) + 1)..Len(all_rows') :
               all_rows'[k].page_num = page_num
     /\ \A k \in 1..Len(all_rows') :
          /\ all_rows'[k].page_num >= 1
          /\ all_rows'[k].page_num <= page_num'
          /\ k > 1 => all_rows'[k - 1].page_num <= all_rows'[k].page_num]_vars

\* the second page has been appended behind the first
C16_Witness ==
  /\ pc = "loop"
  /\ page_num = 2
  /\ Len(all_rows) >= 3
  /\ all_rows[1].page_num = 1
  /\ all_rows[Len(all_rows)].page_num = 2

\* -------------------------------------------------------- delay properties
\* Number of attempts of the current fetch that ended in a retryable status
\* or a network error
TransientAttempts == Cardinality({k \in 1..Len(outcomes) : Transient(outcomes[k])})

\* C17: within one fetch the number of delays is the number of attempts that
\* ended in a retryable status or a network error, the last attempt of the
\* budget included; a 200 or a non-retryable status adds no delay.
C17_DelayPerTransientAttempt ==
  /\ fetch_sleeps = TransientAttempts
  /\ (FetchReturned /\ outcomes # <<>> /\ ~Transient(Last(outcomes)))
       => fetch_sleeps = Len(outcomes) - 1
  /\ (FetchReturned /\ response.isNone /\ outcomes # <<>> /\ Transient(Last(outcomes)))
       => (fetch_sleeps = max_retries /\ Len(outcomes) = max_retries)

\* the budget is used up: the fetcher slept after each attempt, the last too
C17_Witness ==
  /\ FetchReturned
  /\ max_retries >= 2
  /\ response.isNone
  /\ Len(outcomes) = max_retries
  /\ \A k \in 1..Len(outcomes) : Transient(outcomes[k])
  /\ fetch_sleeps = max_retries

\* ------------------------------------------------- empty budget properties
\* C19: with max_retries <= 0 the fetcher returns None without a request and
\* without a delay, and the crawl returns an empty accumulator with the page
\* counter at 1, having sent no request.
C19_EmptyBudget ==
  max_retries <= 0 =>
    /\ requested = {}
    /\ outcomes = <<>>
    /\ fetch_sleeps = 0
    /\ crawl_sleeps = 0
    /\ response.isNone
    /\ pc \in {"init", "loop", "fetched", "done", "clean_raised"}
    /\ all_rows = <<>>
    /\ pc \in {"init", "loop"} => (page_num = 0 /\ fetch_calls = 0)
    /\ pc \in {"fetched", "done", "clean_raised"} => (page_num = 1 /\ fetch_calls = 1)

\* a crawl with max_retries = -1 has returned
C19_Witness ==
  /\ Returned
  /\ max_retries = -1
  /\ page_num = 1
  /\ fetch_calls = 1
  /\ requested = {}
  /\ all_rows = <<>>

\* --------------------------------------------------- termination properties
\* Every page of the site holds a card
AllPagesHaveCards(s) == \A i \in 1..Len(s) : s[i].cards # <<>>

\* No page of the site makes the extractor raise
NeverRaises(s) ==
  /\ \A i \in 1..Len(s) : \A k \in 1..Len(s[i].cards) : s[i].cards[k].h3a
  /\ \A i \in 1..Len(s) : s[i].next.present => s[i].next.hasHref

\* Why a run that returned did: the page it handled last has no next link,
\* or the page under its cursor could not be fetched or gave no record.
StoppedForCause ==
  Returned =>
    IF current_url = None
    THEN /\ ~response.isNone
         /\ ~site[VisitIndex(site, page_num)].next.present
    ELSE response.isNone \/ PageAt(site, current_url).cards = <<>>

\* On a cycle of pages with cards whose fetches all succeed, the run has not
\* returned, its cursor is on the next page of the cycle, visited or not,
\* and the accumulator holds the rows of every visit.
CycleGoesOn ==
  (/\ IsCyclic(site)
   /\ AllPagesHaveCards(site)
   /\ NeverRaises(site)
   /\ ok_fetches = fetch_calls
   /\ pc # "init")
  =>
  /\ pc \in {"loop", "fetch", "fetched"}
  /\ pc = "loop" =>
       /\ current_url = VisitUrl(site, page_num + 1)
       /\ all_rows = ExpectedRows(site, page_num)
       /\ Len(all_rows) >= page_num

\* The chain from the first page comes to a page without next link or
\* without cards, and no page makes the extractor raise.
ChainEnds(s) == NeverRaises(s) /\ ~(IsCyclic(s) /\ AllPagesHaveCards(s))

\* C18: a run returns only for one of the three causes, and a run on a
\* chain that comes to an end does return; on a cycle of pages with cards
\* whose fetches all succeed it never returns: visited pages are requested
\* again and their rows appended again.
C18_NoVisitedSet ==
  /\ [](StoppedForCause /\ CycleGoesOn)
  /\ (pc = "init" /\ ChainEnds(site)) ~> Returned

\* the first page of a cycle is being fetched a second time and its rows
\* are in the accumulator already
C18_Witness ==
  /\ IsCyclic(site)
  /\ AllPagesHaveCards(site)
  /\ ok_fetches = fetch_calls
  /\ pc = "loop"
  /\ page_num = Len(site) + 1
  /\ current_url \in requested
  /\ Len(all_rows) > Len(ExpectedRows(site, Len(site)))
  /\ all_rows[Len(all_rows)].product_url = all_rows[Len(site[1].cards)].product_url

====
